---- MODULE Spec2Model ----
(***************************************************************************)
(* Model of src/src/components/timeline/Selection.js                       *)
(* (TimelineRulerAndSelection): the pointer gesture that creates a preview *)
(* selection, the three drag handles, the hover line and the zoom button.  *)
(*                                                                         *)
(* Numbers.  The code computes with JavaScript numbers.  A number is       *)
(* modelled as a record: Fin(n) is the finite value n / Scale (all finite  *)
(* values the model produces are exact multiples of 1 / Scale because      *)
(* every non-zero width divides Scale), and NaN, PosInf, NegInf are the    *)
(* three non-finite values a division by a zero width produces.            *)
(***************************************************************************)
EXTENDS Integers, Sequences, FiniteSets, TLC

\* ------------------------------------------------------------------ bounds
MaxPage == 3        \* pointer coordinates pageX range over 0..MaxPage
MaxDx == 3          \* handle drags report dx in -MaxDx..MaxDx
MaxInstalled == 2   \* listener pairs that may be on the window at one time
MaxTime == 5        \* handle drags are followed while times stay <= MaxTime

Widths == {0, 1, 2}

\* least common multiple of the non-zero widths: the fixed-point denominator
Scale ==
  CHOOSE s \in 1..16 :
    /\ \A w \in Widths \ {0} : s % w = 0
    /\ \A t \in 1..(s - 1) : \E w \in Widths \ {0} : t % w # 0

\* ------------------------------------------------------- JavaScript numbers
Fin(n) == [k |-> "fin", v |-> n]
NaN == [k |-> "nan", v |-> 0]
PosInf == [k |-> "inf", v |-> 1]
NegInf == [k |-> "inf", v |-> -1]

\* n whole time units (or pixels) as a number
Num(n) == Fin(n * Scale)

IsFin(a) == a.k = "fin"
IsNaN(a) == a.k = "nan"

\* sign of a non-NaN number: -1, 0, 1
Sgn(a) == IF a.v > 0 THEN 1 ELSE IF a.v < 0 THEN -1 ELSE 0

\* a < b
JsLt(a, b) ==
  IF IsNaN(a) \/ IsNaN(b) THEN FALSE
  ELSE IF IsFin(a) /\ IsFin(b) THEN a.v < b.v
  ELSE IF IsFin(a) THEN b.v > 0
  ELSE IF IsFin(b) THEN a.v < 0
  ELSE a.v < b.v

\* a > b
JsGt(a, b) == JsLt(b, a)

\* a === b
JsEq(a, b) == (~IsNaN(a)) /\ (~IsNaN(b)) /\ a = b

\* a <= b
JsLe(a, b) == JsLt(a, b) \/ JsEq(a, b)

\* a >= b
JsGe(a, b) == JsLe(b, a)

\* a + b
JsAdd(a, b) ==
  IF IsNaN(a) \/ IsNaN(b) THEN NaN
  ELSE IF IsFin(a) /\ IsFin(b) THEN Fin(a.v + b.v)
  ELSE IF IsFin(a) THEN b
  ELSE IF IsFin(b) THEN a
  ELSE IF a = b THEN a ELSE NaN

\* -a
JsNeg(a) == IF IsNaN(a) THEN NaN ELSE [k |-> a.k, v |-> 0 - a.v]

\* a - b
JsSub(a, b) == JsAdd(a, JsNeg(b))

\* (px / w) * span for integers px, w (pixels) and a number span
JsScale(px, w, span) ==
  IF w # 0
    THEN IF IsFin(span) THEN Fin((px * span.v) \div w)
         ELSE IF IsNaN(span) \/ px = 0 THEN NaN
         ELSE IF (px > 0) = (w > 0) THEN span ELSE JsNeg(span)
  ELSE IF px = 0 \/ IsNaN(span) \/ Sgn(span) = 0 THEN NaN
  ELSE IF (px > 0) = (Sgn(span) > 0) THEN PosInf ELSE NegInf

\* Math.min(a, b)
MathMin(a, b) ==
  IF IsNaN(a) \/ IsNaN(b) THEN NaN ELSE IF JsLt(b, a) THEN b ELSE a

\* Math.max(a, b)
MathMax(a, b) ==
  IF IsNaN(a) \/ IsNaN(b) THEN NaN ELSE IF JsGt(b, a) THEN b ELSE a

\* clamp(value, min, max) of the 'clamp' package
clamp(value, min, max) ==
  IF JsLt(min, max)
    THEN IF JsLt(value, min) THEN min
         ELSE IF JsGt(value, max) THEN max ELSE value
    ELSE IF JsLt(value, max) THEN max
         ELSE IF JsGt(value, min) THEN min ELSE value

\* ------------------------------------------------------------ input domains
\* content rectangles the layout can produce: right = left + width
MakeRect(l, w) ==
  [left |-> l, top |-> 1, right |-> l + w, bottom |-> 2, width |-> w]

Rects == {MakeRect(0, 2), MakeRect(1, 1), MakeRect(1, 0)}

MakeRange(s, e) == [start |-> Num(s), end |-> Num(e)]

\* the profiles a window is mounted with: the committed range of the store
\* (start <= end), the profile's interval and its zero time
Profiles ==
  {[committedRange |-> MakeRange(0, 4),
    minSelectionStartWidth |-> Num(2), zeroAt |-> Num(1)],
   [committedRange |-> MakeRange(1, 2),
    minSelectionStartWidth |-> Num(1), zeroAt |-> Num(0)]}

\* committed ranges of the store, start <= end
Ranges == {p.committedRange : p \in Profiles}

\* the profile's interval and zero time
Settings ==
  {[minSelectionStartWidth |-> p.minSelectionStartWidth, zeroAt |-> p.zeroAt] :
     p \in Profiles}

Buttons == {0, 2}

PageXs == 0..MaxPage

PageYs == 0..2

Dxs == (0 - MaxDx)..MaxDx

HandleKinds == {"start", "move", "end"}

ClosureIds == 1..MaxInstalled

NoSelection == [hasSelection |-> FALSE, isModifying |-> FALSE]

Selection(s, e, m) ==
  [hasSelection |-> TRUE, selectionStart |-> s, selectionEnd |-> e,
   isModifying |-> m]

\* --------------------------------------------------------------------- state
VARIABLES
  committedRange,          \* props.committedRange
  width,                   \* props.width
  zeroAt,                  \* props.zeroAt
  minSelectionStartWidth,  \* props.minSelectionStartWidth
  previewSelection,        \* props.previewSelection
  rect,                    \* what getContentRect(this._container) returns now
  hoverLocation,           \* state.hoverLocation: << >> is null, <<n>> is n
  closures,                \* the closures whose listeners are on the window
  handlers,                \* this._handlers: 0 is undefined, else a closure
  windowListeners,         \* closures whose move/up listeners are on window
  finished,                \* installed closures whose mouseUpHandler has run
  finalized,               \* those of them that emitted their final update
  drag,                    \* Draggable's gesture: << >> or <<[kind, original]>>
  emitted,                 \* updatePreviewSelection calls of the last event
  commits,                 \* commitRange calls of the last event
  stopped,                 \* handlers that stopped propagation, last event
  ran,                     \* window handlers that ran during the last event
  last                     \* the last event and its inputs

vars ==
  <<committedRange, width, zeroAt, minSelectionStartWidth, previewSelection,
    rect, hoverLocation, closures, handlers, windowListeners, finished,
    finalized, drag, emitted, commits, stopped, ran, last>>

props == <<committedRange, width, zeroAt, minSelectionStartWidth>>

gesture == <<closures, handlers, windowListeners, finished, finalized>>

\* op: the event; kind: the handle of a handle drag, and for a mouseup
\* whether the event before it was a mousemove ("moved") or not ("none");
\* accepted: whether a pointer-down passed the tests of _onMouseDown
Event(op, kind, accepted) == [op |-> op, kind |-> kind, accepted |-> accepted]

\* a slot of closures whose closure is no longer reachable from the window
DeadClosure ==
  [rect |-> MakeRect(0, 0),
   committedRange |-> MakeRange(0, 0),
   minSelectionStartWidth |-> Fin(0),
   mouseDownTime |-> Fin(0),
   isRangeSelecting |-> FALSE]

\* the state right after the component is mounted
Init ==
  /\ \E p \in Profiles :
       /\ committedRange = p.committedRange
       /\ zeroAt = p.zeroAt
       /\ minSelectionStartWidth = p.minSelectionStartWidth
  /\ rect \in Rects
  /\ width = rect.width
  /\ previewSelection = NoSelection
  /\ hoverLocation = << >>
  /\ closures = [h \in ClosureIds |-> DeadClosure]
  /\ handlers = 0
  /\ windowListeners = << >>
  /\ finished = {}
  /\ finalized = {}
  /\ drag = << >>
  /\ emitted = << >>
  /\ commits = << >>
  /\ stopped = {}
  /\ ran = << >>
  /\ last = Event("init", "none", FALSE)

\* ------------------------------------------------------------------ helpers
\* a mapping that forgets to add range.start
mouseTime_noStart(pageX, r, range) ==
  JsScale(pageX - r.left, r.width, JsSub(range.end, range.start))

\* ((pageX - rect.left) / rect.width) * (range.end - range.start) + range.start
mouseTime(pageX, r, range) ==
  JsAdd(JsScale(pageX - r.left, r.width, JsSub(range.end, range.start)),
        range.start)

\* the rectangle test of _onMouseDown and _onMouseMove
outsideRect(pageX, pageY, r) ==
  \/ pageX < r.left
  \/ pageX >= r.right
  \/ pageY < r.top
  \/ pageY >= r.bottom

\* the store's reducer: the preview selection after the updates in es
applyUpdates(sel, es) == IF es = << >> THEN sel ELSE es[Len(es)].update

Emit(by, u) == [by |-> by, update |-> u]

\* the sequence s without the element x
Without(s, x) == SelectSeq(s, LAMBDA y : y # x)

InSeq(s, x) == \E i \in 1..Len(s) : s[i] = x

Range(s) == {s[i] : i \in 1..Len(s)}

\* addEventListener of both listeners of closure h
installMoveAndUpHandlers(ls, h) == Append(ls, h)

\* _uninstallMoveAndUpHandlers: removeEventListener of this._handlers' pair
uninstallMoveAndUpHandlers(ls, h) == IF h # 0 THEN Without(ls, h) ELSE ls

\* a closure is identified by its slot; a slot is free once its listeners
\* are off the window
freshClosure(ls) == CHOOSE h \in ClosureIds : ~InSeq(ls, h) /\
                      \A g \in ClosureIds : g < h => InSeq(ls, g)

\* the closures still reachable from the window
collect(cls, ls) ==
  [h \in ClosureIds |-> IF InSeq(ls, h) THEN cls[h] ELSE DeadClosure]

\* ------------------------------------------------------------- _onMouseDown
\* an acceptance test that forgets the button
onMouseDownAccepts_anyButton(button, pageX, pageY) ==
  ~outsideRect(pageX, pageY, rect)

onMouseDownAccepts(button, pageX, pageY) ==
  /\ button = 0
  /\ ~outsideRect(pageX, pageY, rect)

newClosure(pageX) ==
  [rect |-> rect,
   committedRange |-> committedRange,
   minSelectionStartWidth |-> minSelectionStartWidth,
   mouseDownTime |-> mouseTime(pageX, rect, committedRange),
   isRangeSelecting |-> FALSE]

onMouseDown(button, pageX, pageY) ==
  /\ last' = Event("mousedown", "none",
                   onMouseDownAccepts(button, pageX, pageY))
  /\ emitted' = << >>
  /\ commits' = << >>
  /\ stopped' = {}
  /\ ran' = << >>
  /\ IF onMouseDownAccepts(button, pageX, pageY)
       THEN /\ Len(windowListeners) < MaxInstalled
            /\ LET h == freshClosure(windowListeners)
               IN /\ closures' = [closures EXCEPT ![h] = newClosure(pageX)]
                  /\ handlers' = h
                  /\ windowListeners' =
                       installMoveAndUpHandlers(windowListeners, h)
                  /\ UNCHANGED <<finished, finalized>>
       ELSE UNCHANGED gesture
  /\ UNCHANGED <<props, previewSelection, rect, hoverLocation, drag>>

\* ------------------------------------------ mouseMoveHandler, mouseUpHandler
\* a selectionStart that maps the pointer with the rectangle and range of
\* the current render instead of those captured at the pointer-down
newSelectionStart_currentRect(c, pageX) ==
  clamp(MathMin(c.mouseDownTime, mouseTime(pageX, rect, committedRange)),
        c.committedRange.start, c.committedRange.end)

\* selectionStart of lines 111-115 and 141-145
newSelectionStart(c, pageX) ==
  clamp(MathMin(c.mouseDownTime, mouseTime(pageX, c.rect, c.committedRange)),
        c.committedRange.start, c.committedRange.end)

\* selectionEnd of lines 116-120 and 146-150
newSelectionEnd(c, pageX) ==
  clamp(MathMax(c.mouseDownTime, mouseTime(pageX, c.rect, c.committedRange)),
        c.committedRange.start, c.committedRange.end)

\* a threshold test that looks at the current span only
crossesThreshold_noLatch(c, pageX) ==
  JsGe(JsSub(newSelectionEnd(c, pageX), newSelectionStart(c, pageX)),
       c.minSelectionStartWidth)

\* a threshold test that needs the span to exceed the threshold
crossesThreshold_strict(c, pageX) ==
  \/ c.isRangeSelecting
  \/ JsGt(JsSub(newSelectionEnd(c, pageX), newSelectionStart(c, pageX)),
          c.minSelectionStartWidth)

\* the condition of lines 121-124
crossesThreshold(c, pageX) ==
  \/ c.isRangeSelecting
  \/ JsGe(JsSub(newSelectionEnd(c, pageX), newSelectionStart(c, pageX)),
          c.minSelectionStartWidth)

\* mouseMoveHandler of closure h: the closure afterwards and what it emits
mouseMoveHandler(c, h, pageX) ==
  IF crossesThreshold(c, pageX)
    THEN [closure |-> [c EXCEPT !.isRangeSelecting = TRUE],
          emitted |-> <<Emit(h, Selection(newSelectionStart(c, pageX),
                                          newSelectionEnd(c, pageX), TRUE))>>]
    ELSE [closure |-> c, emitted |-> << >>]

\* the window delivers a mousemove to the listeners ls in registration order
RECURSIVE dispatchMove(_, _, _)
dispatchMove(ls, cls, pageX) ==
  IF ls = << >> THEN [closures |-> cls, emitted |-> << >>]
  ELSE LET h == Head(ls)
           r == mouseMoveHandler(cls[h], h, pageX)
           rest == dispatchMove(Tail(ls), [cls EXCEPT ![h] = r.closure], pageX)
       IN [closures |-> rest.closures, emitted |-> r.emitted \o rest.emitted]

\* a release test that forgets the releases at or after the selection's end
releasedOutside_startOnly(c, sel, pageX) ==
  LET mouseUpTime == mouseTime(pageX, c.rect, c.committedRange)
  IN JsLt(mouseUpTime, sel.selectionStart)

\* a release test that treats the selection as open at its start
releasedOutside_closed(c, sel, pageX) ==
  LET mouseUpTime == mouseTime(pageX, c.rect, c.committedRange)
  IN \/ JsLe(mouseUpTime, sel.selectionStart)
     \/ JsGe(mouseUpTime, sel.selectionEnd)

\* does the release at pageX fall outside the preview selection sel (line 169)
releasedOutside(c, sel, pageX) ==
  LET mouseUpTime == mouseTime(pageX, c.rect, c.committedRange)
  IN \/ JsLt(mouseUpTime, sel.selectionStart)
     \/ JsGe(mouseUpTime, sel.selectionEnd)

\* a mouseUpHandler that stops propagation on every path
mouseUpHandler_alwaysStops(c, h, st, pageX) ==
  IF c.isRangeSelecting
    THEN [st EXCEPT
            !.emitted = Append(@, Emit(h,
                          Selection(newSelectionStart(c, pageX),
                                    newSelectionEnd(c, pageX), FALSE))),
            !.preview = Selection(newSelectionStart(c, pageX),
                                  newSelectionEnd(c, pageX), FALSE),
            !.stopped = @ \cup {h},
            !.ran = Append(@, h),
            !.listeners = uninstallMoveAndUpHandlers(@, handlers)]
    ELSE IF st.preview.hasSelection /\ releasedOutside(c, st.preview, pageX)
      THEN [st EXCEPT
              !.emitted = Append(@, Emit(h, NoSelection)),
              !.preview = NoSelection,
              !.stopped = @ \cup {h},
              !.ran = Append(@, h),
              !.listeners = uninstallMoveAndUpHandlers(@, handlers)]
      ELSE [st EXCEPT
              !.stopped = @ \cup {h},
              !.ran = Append(@, h),
              !.listeners = uninstallMoveAndUpHandlers(@, handlers)]

\* mouseUpHandler of closure h, run in the dispatch state st
mouseUpHandler(c, h, st, pageX) ==
  IF c.isRangeSelecting
    THEN [st EXCEPT
            !.emitted = Append(@, Emit(h,
                          Selection(newSelectionStart(c, pageX),
                                    newSelectionEnd(c, pageX), FALSE))),
            !.preview = Selection(newSelectionStart(c, pageX),
                                  newSelectionEnd(c, pageX), FALSE),
            !.stopped = @ \cup {h},
            !.ran = Append(@, h),
            !.listeners = uninstallMoveAndUpHandlers(@, handlers)]
    ELSE IF st.preview.hasSelection /\ releasedOutside(c, st.preview, pageX)
      THEN [st EXCEPT
              !.emitted = Append(@, Emit(h, NoSelection)),
              !.preview = NoSelection,
              !.ran = Append(@, h),
              !.listeners = uninstallMoveAndUpHandlers(@, handlers)]
      ELSE [st EXCEPT
              !.ran = Append(@, h),
              !.listeners = uninstallMoveAndUpHandlers(@, handlers)]

\* the window delivers a mouseup to the listeners registered when the
\* dispatch began (snap), skipping those removed meanwhile
RECURSIVE dispatchUp(_, _, _)
dispatchUp(snap, st, pageX) ==
  IF snap = << >> THEN st
  ELSE LET h == Head(snap)
       IN IF InSeq(st.listeners, h)
            THEN dispatchUp(Tail(snap),
                            mouseUpHandler(closures[h], h, st, pageX), pageX)
            ELSE dispatchUp(Tail(snap), st, pageX)

\* a mousemove event reaches the window's capture listeners
MouseMove(pageX) ==
  LET r == dispatchMove(windowListeners, closures, pageX)
  IN /\ last' = Event("mousemove", "none", FALSE)
     /\ closures' = r.closures
     /\ emitted' = r.emitted
     /\ previewSelection' = applyUpdates(previewSelection, r.emitted)
     /\ ran' = windowListeners
     /\ commits' = << >>
     /\ stopped' = {}
     /\ UNCHANGED <<props, rect, hoverLocation, handlers, windowListeners,
                    finished, finalized, drag>>

\* a mouseup event reaches the window's capture listeners
MouseUp(pageX) ==
  LET r == dispatchUp(windowListeners,
                      [listeners |-> windowListeners, emitted |-> << >>,
                       preview |-> previewSelection, stopped |-> {},
                       ran |-> << >>], pageX)
  IN /\ last' = Event("mouseup",
                      IF last.op = "mousemove" THEN "moved" ELSE "none",
                      FALSE)
     /\ windowListeners' = r.listeners
     /\ closures' = collect(closures, r.listeners)
     /\ emitted' = r.emitted
     /\ previewSelection' = r.preview
     /\ stopped' = r.stopped
     /\ ran' = r.ran
     /\ finished' = (finished \cup Range(r.ran)) \cap Range(r.listeners)
     /\ finalized' = (finalized \cup r.stopped) \cap Range(r.listeners)
     /\ commits' = << >>
     /\ UNCHANGED <<props, rect, hoverLocation, handlers, drag>>

\* -------------------------------------------------------------- _onMouseMove
\* a hover location that forgets to subtract rect.left
onMouseMove_pageX(pageX, pageY) ==
  IF outsideRect(pageX, pageY, rect) THEN << >> ELSE <<pageX>>

onMouseMove(pageX, pageY) ==
  IF outsideRect(pageX, pageY, rect) THEN << >> ELSE <<pageX - rect.left>>

\* a mousemove event over the container reaches React's onMouseMove
Hover(pageX, pageY) ==
  /\ hoverLocation' = onMouseMove(pageX, pageY)
  /\ last' = Event("hover", "none", FALSE)
  /\ emitted' = << >>
  /\ commits' = << >>
  /\ stopped' = {}
  /\ ran' = << >>
  /\ UNCHANGED <<props, previewSelection, rect, gesture, drag>>

\* ---------------------------------------------------------------- _makeOnMove
\* a start handle that moves the end boundary too
rangeStartOnMove_both(delta) == [startDelta |-> delta, endDelta |-> delta]

rangeStartOnMove(delta) == [startDelta |-> delta, endDelta |-> Fin(0)]

\* a move handle that moves the start boundary only
moveRangeOnMove_startOnly(delta) == [startDelta |-> delta, endDelta |-> Fin(0)]

moveRangeOnMove(delta) == [startDelta |-> delta, endDelta |-> delta]

rangeEndOnMove(delta) == [startDelta |-> Fin(0), endDelta |-> delta]

handleFun(kind, delta) ==
  CASE kind = "start" -> rangeStartOnMove(delta)
    [] kind = "move" -> moveRangeOnMove(delta)
    [] kind = "end" -> rangeEndOnMove(delta)

\* delta of line 227
pixelDelta(dx) ==
  JsScale(dx, width, JsSub(committedRange.end, committedRange.start))

\* selectionStart of lines 229-232
handleSelectionStart(kind, originalSelection, dx) ==
  MathMax(committedRange.start,
          JsAdd(originalSelection.selectionStart,
                handleFun(kind, pixelDelta(dx)).startDelta))

\* a selectionEnd clamped to the committed range only
handleSelectionEnd_rangeClamp(kind, originalSelection, dx) ==
  clamp(JsAdd(originalSelection.selectionEnd,
              handleFun(kind, pixelDelta(dx)).endDelta),
        committedRange.start,
        committedRange.end)

\* selectionEnd of lines 233-237
handleSelectionEnd(kind, originalSelection, dx) ==
  clamp(JsAdd(originalSelection.selectionEnd,
              handleFun(kind, pixelDelta(dx)).endDelta),
        handleSelectionStart(kind, originalSelection, dx),
        committedRange.end)

\* the update one call of the handle's OnMove dispatches
makeOnMove(kind, originalSelection, dx, isModifying) ==
  Selection(handleSelectionStart(kind, originalSelection, dx),
            handleSelectionEnd(kind, originalSelection, dx),
            isModifying)

\* handle drags are followed while the times they produce stay small
WithinMaxTime(u) ==
  /\ IsFin(u.selectionStart) => u.selectionStart.v <= MaxTime * Scale
  /\ IsFin(u.selectionEnd) => u.selectionEnd.v <= MaxTime * Scale

\* Draggable: a press on a handle records the selection it was rendered with
DragStart(kind) ==
  /\ previewSelection.hasSelection
  /\ drag = << >>
  /\ drag' = <<[kind |-> kind,
               original |->
                 [selectionStart |-> previewSelection.selectionStart,
                  selectionEnd |-> previewSelection.selectionEnd]]>>
  /\ last' = Event("dragstart", kind, FALSE)
  /\ emitted' = << >>
  /\ commits' = << >>
  /\ stopped' = {}
  /\ ran' = << >>
  /\ UNCHANGED <<props, previewSelection, rect, hoverLocation, gesture>>

\* Draggable: every frame of the drag calls OnMove with isModifying = true
DragMove(dx) ==
  /\ drag # << >>
  /\ LET u == makeOnMove(drag[1].kind, drag[1].original, dx, TRUE)
     IN /\ WithinMaxTime(u)
        /\ emitted' = <<Emit(0, u)>>
        /\ previewSelection' = u
  /\ last' = Event("dragmove", drag[1].kind, FALSE)
  /\ commits' = << >>
  /\ stopped' = {}
  /\ ran' = << >>
  /\ UNCHANGED <<props, rect, hoverLocation, gesture, drag>>

\* Draggable: the release calls OnMove with isModifying = false
DragEnd(dx) ==
  /\ drag # << >>
  /\ LET u == makeOnMove(drag[1].kind, drag[1].original, dx, FALSE)
     IN /\ WithinMaxTime(u)
        /\ emitted' = <<Emit(0, u)>>
        /\ previewSelection' = u
  /\ last' = Event("dragend", drag[1].kind, FALSE)
  /\ drag' = << >>
  /\ commits' = << >>
  /\ stopped' = {}
  /\ ran' = << >>
  /\ UNCHANGED <<props, rect, hoverLocation, gesture>>

\* --------------------------------------------------------- _zoomButtonOnClick
\* a zoom that commits the selection without subtracting zeroAt
zoomButtonOnClick_noOffset(sel) ==
  IF sel.hasSelection
    THEN <<[start |-> sel.selectionStart, end |-> sel.selectionEnd]>>
    ELSE << >>

zoomButtonOnClick(sel) ==
  IF sel.hasSelection
    THEN <<[start |-> JsSub(sel.selectionStart, zeroAt),
            end |-> JsSub(sel.selectionEnd, zeroAt)]>>
    ELSE << >>

\* a zoom that also clears the preview selection it committed
ZoomClick_clearsSelection ==
  /\ commits' = zoomButtonOnClick(previewSelection)
  /\ last' = Event("zoom", "none", FALSE)
  /\ emitted' = IF previewSelection.hasSelection
                  THEN <<Emit(0, NoSelection)>> ELSE << >>
  /\ previewSelection' = NoSelection
  /\ stopped' = {0}
  /\ ran' = << >>
  /\ UNCHANGED <<props, rect, hoverLocation, gesture, drag>>

ZoomClick ==
  /\ commits' = zoomButtonOnClick(previewSelection)
  /\ last' = Event("zoom", "none", FALSE)
  /\ emitted' = << >>
  /\ stopped' = {0}
  /\ ran' = << >>
  /\ UNCHANGED <<props, previewSelection, rect, hoverLocation, gesture,
                 drag>>

\* ---------------------------------------------------------------- environment
\* the layout changes: the container gets another content rectangle and the
\* component is rendered with its width
Relayout ==
  /\ rect' \in Rects \ {rect}
  /\ width' = rect'.width
  /\ last' = Event("relayout", "none", FALSE)
  /\ emitted' = << >>
  /\ commits' = << >>
  /\ stopped' = {}
  /\ ran' = << >>
  /\ UNCHANGED <<committedRange, zeroAt, minSelectionStartWidth,
                 previewSelection, hoverLocation, gesture, drag>>

\* the store commits another range and clears the preview selection; the
\* component is rendered with the new committedRange
StoreCommit ==
  /\ committedRange' \in Ranges \ {committedRange}
  /\ previewSelection' = NoSelection
  /\ last' = Event("store", "none", FALSE)
  /\ emitted' = << >>
  /\ commits' = << >>
  /\ stopped' = {}
  /\ ran' = << >>
  /\ UNCHANGED <<width, zeroAt, minSelectionStartWidth, rect, hoverLocation,
                 gesture, drag>>

MouseDownStep ==
  \E b \in Buttons, x \in PageXs, y \in PageYs : onMouseDown(b, x, y)

MouseMoveStep == \E x \in PageXs : MouseMove(x)

MouseUpStep == \E x \in PageXs : MouseUp(x)

HoverStep == \E x \in PageXs, y \in PageYs : Hover(x, y)

DragStartStep == \E kind \in HandleKinds : DragStart(kind)

DragMoveStep == \E dx \in Dxs : DragMove(dx)

DragEndStep == \E dx \in Dxs : DragEnd(dx)

\* the new-selection gesture
Next ==
  \/ MouseDownStep
  \/ MouseMoveStep
  \/ MouseUpStep
  \/ ZoomClick
  \/ Relayout

Spec == Init /\ [][Next]_vars

\* ------------------------------------------------------------ handle drags
\* the closures an accepted pointer-down can create
PossibleClosures ==
  UNION {{[rect |-> r,
           committedRange |-> cr,
           minSelectionStartWidth |-> st.minSelectionStartWidth,
           mouseDownTime |-> mouseTime(x, r, cr),
           isRangeSelecting |-> FALSE] :
             cr \in Ranges, st \in Settings,
             x \in {p \in PageXs : ~outsideRect(p, r.top, r)}} :
         r \in Rects}

\* the selections a new-selection gesture that crossed the threshold can
\* leave in the store when it is released
GestureSelections(cr, thr) ==
  {Selection(newSelectionStart(c, x), newSelectionEnd(c, x), FALSE) :
     c \in {d \in PossibleClosures :
              /\ d.committedRange = cr
              /\ d.minSelectionStartWidth = thr
              /\ \E x1 \in PageXs : crossesThreshold(d, x1)},
     x \in PageXs}

\* a mounted component whose store holds a selection made by a gesture
InitHandles ==
  /\ committedRange \in Ranges
  /\ rect \in Rects
  /\ width = rect.width
  /\ \E s \in Settings :
       /\ zeroAt = s.zeroAt
       /\ minSelectionStartWidth = s.minSelectionStartWidth
  /\ previewSelection \in
       GestureSelections(committedRange, minSelectionStartWidth)
  /\ hoverLocation = << >>
  /\ closures = [h \in ClosureIds |-> DeadClosure]
  /\ handlers = 0
  /\ windowListeners = << >>
  /\ finished = {}
  /\ finalized = {}
  /\ drag = << >>
  /\ emitted = << >>
  /\ commits = << >>
  /\ stopped = {}
  /\ ran = << >>
  /\ last = Event("init", "none", FALSE)

NextHandles ==
  \/ DragStartStep
  \/ DragMoveStep
  \/ DragEndStep
  \/ ZoomClick
  \/ Relayout

SpecHandles == InitHandles /\ [][NextHandles]_vars

\* ------------------------------------------------------------ all operations
\* no new-selection gesture and no handle drag is in progress
Idle == windowListeners = << >> /\ drag = << >>

\* one pointer whose events all arrive: a press starts a gesture of either
\* kind only when none is in progress
NextAll ==
  \/ Idle /\ MouseDownStep
  \/ MouseMoveStep
  \/ MouseUpStep
  \/ HoverStep
  \/ Idle /\ DragStartStep
  \/ DragMoveStep
  \/ DragEndStep
  \/ ZoomClick
  \/ Relayout

SpecAll == Init /\ [][NextAll]_vars

\* ------------------------------------------------------------ hover samples
\* the pointer moves over the container, pressed or not, while the layout
\* may change
NextHover ==
  \/ HoverStep
  \/ Idle /\ MouseDownStep
  \/ MouseMoveStep
  \/ MouseUpStep
  \/ Relayout

SpecHover == Init /\ [][NextHover]_vars

\* ------------------------------------------- a gesture across renders
\* one new-selection gesture at a time while the layout and the committed
\* range change under it
NextLayout ==
  \/ Idle /\ MouseDownStep
  \/ MouseMoveStep
  \/ MouseUpStep
  \/ Relayout
  \/ StoreCommit

SpecLayout == Init /\ [][NextLayout]_vars

\* ===================================================================== claims
\* cr.start <= u.selectionStart <= u.selectionEnd <= cr.end
Ordered(u, cr) ==
  /\ JsLe(cr.start, u.selectionStart)
  /\ JsLe(u.selectionStart, u.selectionEnd)
  /\ JsLe(u.selectionEnd, cr.end)

\* the updates of es that closure h (0: a drag handle) dispatched
EmittedBy(es, h) == SelectSeq(es, LAMBDA e : e.by = h)

\* C1: every update with hasSelection = true that a new-selection gesture or
\* a handle drag emits satisfies committedRange.start <= selectionStart <=
\* selectionEnd <= committedRange.end, for every pointer position and pixel
\* delta, when the drag's original selection lies inside the committed range
\* (stated here for a container of non-zero width).
C1_SelectionOrdering ==
  [][\A i \in 1..Len(emitted') :
       LET e == emitted'[i]
       IN (e.update.hasSelection /\ width # 0) =>
            IF e.by = 0
              THEN (drag # << >> /\ Ordered(drag[1].original, committedRange))
                     => Ordered(e.update, committedRange)
              ELSE Ordered(e.update, closures[e.by].committedRange)]_vars

\* C2: once the pointer-up of a gesture has been processed, the listeners
\* that gesture installed are no longer on the window: every install is
\* matched by one removal, on both exit paths of mouseUpHandler.
C2_CaptureLifecycle == finished = {}

\* clamp on integers, written out
RefClamp(v, lo, hi) == IF v < lo THEN lo ELSE IF v > hi THEN hi ELSE v

RefMin(a, b) == IF a < b THEN a ELSE b

RefMax(a, b) == IF a > b THEN a ELSE b

\* the clamped selection start and end of closure c for a pointer at pageX
RefStart(c, pageX) ==
  RefClamp(RefMin(c.mouseDownTime.v,
                  mouseTime(pageX, c.rect, c.committedRange).v),
           c.committedRange.start.v, c.committedRange.end.v)

RefEnd(c, pageX) ==
  RefClamp(RefMax(c.mouseDownTime.v,
                  mouseTime(pageX, c.rect, c.committedRange).v),
           c.committedRange.start.v, c.committedRange.end.v)

\* C3: a pointer-move of a gesture that has not crossed the threshold emits
\* nothing when the clamped span is below minSelectionStartWidth, and exactly
\* one update Selection{start, end, isModifying: true} when the span is
\* greater than or equal to it.
C3_ThresholdGating ==
  [][(/\ last'.op = "mousemove"
      /\ \E h \in Range(windowListeners) : ~closures[h].isRangeSelecting) =>
     \A x \in PageXs :
       MouseMove(x) =>
         \A h \in Range(windowListeners) :
           ~closures[h].isRangeSelecting =>
             LET c == closures[h]
                 s == RefStart(c, x)
                 e == RefEnd(c, x)
             IN IF e - s < c.minSelectionStartWidth.v
                  THEN EmittedBy(emitted', h) = << >>
                  ELSE EmittedBy(emitted', h) =
                         <<Emit(h, Selection(Fin(s), Fin(e), TRUE))>>]_vars

\* a pointer-move whose span is exactly the threshold has emitted one update
C3_Witness ==
  /\ last.op = "mousemove"
  /\ Len(emitted) = 1
  /\ emitted[1].update.isModifying
  /\ emitted[1].update.selectionEnd.v - emitted[1].update.selectionStart.v
       = minSelectionStartWidth.v

\* the mouseUpHandler of a gesture that crossed the threshold emits exactly
\* one update Selection{start, end, isModifying: false} with the clamped min
\* and max of the origin time and the release time (this much holds)
FinalUpdateOnRelease ==
  [][last'.op = "mouseup" =>
     \A x \in PageXs :
       MouseUp(x) =>
         \A h \in Range(ran') :
           closures[h].isRangeSelecting =>
             EmittedBy(emitted', h) =
               <<Emit(h, Selection(Fin(RefStart(closures[h], x)),
                                   Fin(RefEnd(closures[h], x)), FALSE))>>]_vars

\* C4: the pointer-up of a gesture that crossed the threshold emits exactly
\* one final update Selection{start, end, isModifying: false}, and that
\* update is the last one the gesture emits.
C4_FinalUpdateIsLast ==
  [][/\ last'.op = "mouseup" =>
          \A x \in PageXs :
            MouseUp(x) =>
            \A h \in Range(ran') :
              closures[h].isRangeSelecting =>
                EmittedBy(emitted', h) =
                  <<Emit(h, Selection(Fin(RefStart(closures[h], x)),
                                      Fin(RefEnd(closures[h], x)), FALSE))>>
     /\ \A i \in 1..Len(emitted') : emitted'[i].by \notin finalized]_vars

\* C5: the pointer-up of a gesture that never crossed the threshold emits
\* NoSelection exactly when a preview selection is present and the release
\* time t has t < selectionStart or t >= selectionEnd; otherwise it emits
\* nothing and the preview selection stays as it was.
C5_ClickOutsideClears ==
  [][last'.op = "mouseup" =>
     \A x \in PageXs :
       (windowListeners # << >> /\ MouseUp(x)) =>
         LET h == Head(windowListeners)
             c == closures[h]
             t == mouseTime(x, c.rect, c.committedRange)
             out == /\ previewSelection.hasSelection
                    /\ \/ t.v < previewSelection.selectionStart.v
                       \/ t.v >= previewSelection.selectionEnd.v
         IN ~c.isRangeSelecting =>
              /\ EmittedBy(emitted', h) =
                   IF out THEN <<Emit(h, NoSelection)>> ELSE << >>
              /\ (~out /\ Len(ran') = 1) =>
                   previewSelection' = previewSelection]_vars

\* a release below the threshold has cleared the preview selection
C5_Witness ==
  /\ last.op = "mouseup"
  /\ Len(emitted) = 1
  /\ emitted[1].update = NoSelection
  /\ previewSelection = NoSelection

\* C6: the mouseUpHandler of a gesture stops the propagation of the
\* pointer-up event if and only if the gesture crossed the threshold.
C6_ConsumedIffCrossed ==
  [][last'.op = "mouseup" =>
     \A x \in PageXs :
       MouseUp(x) =>
         \A h \in Range(ran') :
           (h \in stopped') <=> closures[h].isRangeSelecting]_vars

\* a release below the threshold cleared the selection and was not consumed
C6_Witness ==
  /\ last.op = "mouseup"
  /\ ran # << >>
  /\ stopped = {}
  /\ emitted # << >>

\* C7: dragging the end handle never emits newEnd < newStart, and a drag to
\* the left that would put the end before the start emits newEnd = newStart
\* = the original start, for an original selection inside the committed
\* range.
C7_EndHandleClamp ==
  [][(last'.op \in {"dragmove", "dragend"} /\ last'.kind = "end") =>
     \A dx \in Dxs :
       (/\ DragMove(dx) \/ DragEnd(dx)
        /\ drag[1].kind = "end"
        /\ Ordered(drag[1].original, committedRange)) =>
         LET o == drag[1].original
             u == emitted'[1].update
         IN /\ Len(emitted') = 1
            /\ ~JsLt(u.selectionEnd, u.selectionStart)
            /\ JsLt(JsAdd(o.selectionEnd, pixelDelta(dx)), o.selectionStart)
                 => /\ u.selectionStart = o.selectionStart
                    /\ u.selectionEnd = o.selectionStart]_vars

\* the end handle was dragged left of the start and the end stopped there
C7_Witness ==
  /\ last.op = "dragmove"
  /\ last.kind = "end"
  /\ drag # << >>
  /\ Ordered(drag[1].original, committedRange)
  /\ JsLt(drag[1].original.selectionStart, drag[1].original.selectionEnd)
  /\ previewSelection.hasSelection
  /\ previewSelection.selectionStart = drag[1].original.selectionStart
  /\ previewSelection.selectionEnd = drag[1].original.selectionStart

\* C8: a pointer-down with a non-primary button, or outside the container's
\* content rectangle, installs no listeners, creates no gesture state and
\* emits nothing; it leaves everything later events depend on unchanged.
C8_IgnoredPointerDown ==
  [][(/\ last'.op = "mousedown"
      /\ \E b \in Buttons, x \in PageXs, y \in PageYs :
           /\ \/ b # 0
              \/ x < rect.left
              \/ x >= rect.right
              \/ y < rect.top
              \/ y >= rect.bottom
           /\ onMouseDown(b, x, y)) =>
         /\ emitted' = << >>
         /\ commits' = << >>
         /\ UNCHANGED <<props, previewSelection, rect, hoverLocation,
                        closures, handlers, windowListeners, drag>>]_vars

\* a pointer-down was ignored while the container had a non-empty rectangle
C8_Witness ==
  /\ last.op = "mousedown"
  /\ ~last.accepted
  /\ rect.width > 0
  /\ windowListeners = << >>
  /\ emitted = << >>

\* C9: when the container width is zero no operation emits a preview
\* selection update, and no non-finite value reaches the preview selection.
C9_ZeroWidthShortCircuit ==
  /\ width = 0 => emitted = << >>
  /\ previewSelection.hasSelection =>
       /\ IsFin(previewSelection.selectionStart)
       /\ IsFin(previewSelection.selectionEnd)

\* what subtracting the finite zeroAt from the number a gives
RefMinusZeroAt(a) == IF IsFin(a) THEN Fin(a.v - zeroAt.v) ELSE a

\* C10: the zoom control requests exactly one commitRange(selectionStart -
\* zeroAt, selectionEnd - zeroAt) when a preview selection is present, and
\* requests nothing and changes no state when there is none.
C10_ZoomCommits ==
  [][(last'.op = "zoom" /\ ZoomClick) =>
       /\ IF previewSelection.hasSelection
            THEN commits' =
                   <<[start |-> RefMinusZeroAt(previewSelection.selectionStart),
                      end |-> RefMinusZeroAt(previewSelection.selectionEnd)]>>
            ELSE commits' = << >>
       /\ emitted' = << >>
       /\ UNCHANGED <<props, previewSelection, rect, hoverLocation, gesture,
                      drag>>]_vars

\* the zoom control committed a selection shifted by a non-zero zeroAt
C10_Witness ==
  /\ last.op = "zoom"
  /\ zeroAt.v # 0
  /\ previewSelection.hasSelection
  /\ IsFin(previewSelection.selectionStart)
  /\ Len(commits) = 1
  /\ commits[1].start.v = previewSelection.selectionStart.v - zeroAt.v
  /\ commits[1].end.v = previewSelection.selectionEnd.v - zeroAt.v

\* the dispatch state in which the first mouseUpHandler of a mouseup runs
UpStart ==
  [listeners |-> windowListeners, emitted |-> << >>,
   preview |-> previewSelection, stopped |-> {}, ran |-> << >>]

\* the dispatch state in which the i-th listener of the window is reached
UpBefore(i, pageX) ==
  dispatchUp(SubSeq(windowListeners, 1, i - 1), UpStart, pageX)

\* the i-th listener belongs to a gesture that has not crossed the threshold
\* and is released at pageX outside the preview selection then present
ReleasedOutsideAt(i, pageX) ==
  LET h == windowListeners[i]
      c == closures[h]
      before == UpBefore(i, pageX)
      t == mouseTime(pageX, c.rect, c.committedRange)
  IN /\ InSeq(before.listeners, h)
     /\ ~c.isRangeSelecting
     /\ before.preview.hasSelection
     /\ \/ t.v < before.preview.selectionStart.v
        \/ t.v >= before.preview.selectionEnd.v

\* C11 as stated: a gesture in which the pointer moved but the span stayed
\* below the threshold, released outside the existing preview selection,
\* emits no NoSelection and the selection is preserved.
C11_SubThresholdDragKeeps ==
  [][(last'.op = "mouseup" /\ last.op = "mousemove") =>
     \A x \in PageXs :
       MouseUp(x) =>
         \A i \in 1..Len(windowListeners) :
           ReleasedOutsideAt(i, x) =>
             EmittedBy(emitted', windowListeners[i]) = << >>]_vars

\* C11: a gesture in which the pointer moved but the span stayed below the
\* threshold, released at a time outside the preview selection present when
\* its mouseUpHandler runs, clears the selection as a release with no
\* movement does: the handler emits exactly one NoSelection.
C11_SubThresholdDragClears ==
  [][(last'.op = "mouseup" /\ last.op = "mousemove") =>
     \A x \in PageXs :
       MouseUp(x) =>
         \A i \in 1..Len(windowListeners) :
           ReleasedOutsideAt(i, x) =>
             EmittedBy(emitted', windowListeners[i]) =
               <<Emit(windowListeners[i], NoSelection)>>]_vars

\* a gesture that received a mousemove and stayed below the threshold was
\* released and cleared the preview selection
C11_Witness ==
  /\ last.op = "mouseup"
  /\ last.kind = "moved"
  /\ Len(ran) = 1
  /\ stopped = {}
  /\ emitted = <<Emit(ran[1], NoSelection)>>
  /\ previewSelection = NoSelection

\* C12: only the zoom activation calls commitRange; pointer-down,
\* pointer-move, pointer-up, hover samples and the three handle drags request
\* no commit and leave the committed range unchanged, and the zoom activation
\* proposes no preview-selection update.
C12_OnlyZoomCommits ==
  [][/\ last'.op # "zoom" =>
          /\ commits' = << >>
          /\ committedRange' = committedRange
     /\ last'.op = "zoom" =>
          /\ emitted' = << >>
          /\ previewSelection' = previewSelection]_vars

\* a handle drag proposed a preview-selection update and requested no commit
C12_Witness ==
  /\ last.op = "dragend"
  /\ Len(emitted) = 1
  /\ emitted[1].update.hasSelection
  /\ commits = << >>

\* C13: after a pointer-move sample on the container the hover location is
\* none when the pointer is outside the content rectangle and pageX -
\* rect.left otherwise, whatever it was before; when it is not none it
\* satisfies 0 <= hoverLocation < rect.width.
C13_HoverLocation ==
  [][last'.op = "hover" =>
     \A x \in PageXs, y \in PageYs :
       Hover(x, y) =>
         /\ hoverLocation' =
              IF \/ x < rect.left
                 \/ x >= rect.right
                 \/ y < rect.top
                 \/ y >= rect.bottom
                THEN << >>
                ELSE <<x - rect.left>>
         /\ hoverLocation' # << >> =>
              /\ 0 <= hoverLocation'[1]
              /\ hoverLocation'[1] < rect.width]_vars

\* a sample inside a rectangle that does not start at 0 replaced an earlier
\* hover location
C13_Witness ==
  /\ last.op = "hover"
  /\ rect.left > 0
  /\ hoverLocation = <<0>>

\* C14: for the rectangle and committed range a pointer event reads, with a
\* non-zero width, the time of a pointer position is non-decreasing in the
\* pixel offset pageX - rect.left, pixel offset 0 maps to range.start and
\* pixel offset rect.width maps to range.end.
C14_PixelToTime ==
  rect.width # 0 =>
    /\ \A x1 \in PageXs, x2 \in PageXs :
         x1 <= x2 =>
           /\ IsFin(mouseTime(x1, rect, committedRange))
           /\ mouseTime(x1, rect, committedRange).v
                <= mouseTime(x2, rect, committedRange).v
    /\ mouseTime(rect.left, rect, committedRange) = committedRange.start
    /\ mouseTime(rect.left + rect.width, rect, committedRange)
         = committedRange.end

\* a pointer-down inside a range that does not start at 0 captured a
\* down-time strictly inside the range
C14_Witness ==
  /\ last.op = "mousedown"
  /\ last.accepted
  /\ committedRange.start.v # 0
  /\ closures[handlers].rect = rect
  /\ committedRange.start.v < closures[handlers].mouseDownTime.v
  /\ closures[handlers].mouseDownTime.v < committedRange.end.v

\* C15: once a gesture has crossed the threshold every later pointer-move of
\* that gesture emits one Selection{start, end, isModifying: true}, also
\* when the span is below minSelectionStartWidth or 0; the gesture stays
\* latched while its listeners are installed, and a new gesture starts with
\* the latch cleared.
C15_ThresholdLatch ==
  [][/\ (/\ last'.op = "mousemove"
         /\ \E h \in Range(windowListeners) : closures[h].isRangeSelecting) =>
          \A x \in PageXs :
            MouseMove(x) =>
              \A h \in Range(windowListeners) :
                closures[h].isRangeSelecting =>
                  EmittedBy(emitted', h) =
                    <<Emit(h, Selection(Fin(RefStart(closures[h], x)),
                                        Fin(RefEnd(closures[h], x)), TRUE))>>
     /\ \A h \in ClosureIds :
          (closures[h].isRangeSelecting /\ InSeq(windowListeners', h)) =>
            closures'[h].isRangeSelecting
     /\ (last'.op = "mousedown" /\ last'.accepted) =>
          ~closures'[handlers'].isRangeSelecting]_vars

\* a latched gesture emitted an update whose span is 0, below the threshold
C15_Witness ==
  /\ last.op = "mousemove"
  /\ Len(emitted) = 1
  /\ closures[emitted[1].by].isRangeSelecting
  /\ emitted[1].update.isModifying
  /\ emitted[1].update.selectionStart = emitted[1].update.selectionEnd
  /\ closures[emitted[1].by].minSelectionStartWidth.v > 0

\* C16 as stated: a frame of the start handle emits the original
\* selectionEnd, for an original selection inside the committed range and
\* every pixel delta.
C16_StartHandleKeepsEnd ==
  [][(last'.op \in {"dragmove", "dragend"} /\ last'.kind = "start") =>
     \A dx \in Dxs :
       (/\ DragMove(dx) \/ DragEnd(dx)
        /\ Ordered(drag[1].original, committedRange)) =>
         emitted'[1].update.selectionEnd = drag[1].original.selectionEnd]_vars

\* C16: a frame of the start handle whose emitted selectionStart does not
\* pass the original selectionEnd emits the original selectionEnd, for an
\* original selection inside the committed range.
C16_StartHandleKeepsEndUntilPassed ==
  [][(last'.op \in {"dragmove", "dragend"} /\ last'.kind = "start") =>
     \A dx \in Dxs :
       (/\ DragMove(dx) \/ DragEnd(dx)
        /\ Ordered(drag[1].original, committedRange)) =>
         LET o == drag[1].original
             u == emitted'[1].update
         IN /\ Len(emitted') = 1
            /\ JsLe(u.selectionStart, o.selectionEnd) =>
                 u.selectionEnd = o.selectionEnd]_vars

\* the start handle moved the start and left the end where it was
C16_Witness ==
  /\ last.op = "dragmove"
  /\ last.kind = "start"
  /\ drag # << >>
  /\ Ordered(drag[1].original, committedRange)
  /\ previewSelection.hasSelection
  /\ JsLt(drag[1].original.selectionStart, previewSelection.selectionStart)
  /\ JsLt(previewSelection.selectionStart, previewSelection.selectionEnd)
  /\ previewSelection.selectionEnd = drag[1].original.selectionEnd

\* the times the move handle would emit without clamping
Translated(o, dx) ==
  [selectionStart |-> JsAdd(o.selectionStart, pixelDelta(dx)),
   selectionEnd |-> JsAdd(o.selectionEnd, pixelDelta(dx))]

\* C17 as stated: a frame of the move handle emits a selection of the
\* original duration, for an original selection inside the committed range
\* and every pixel delta, also past the ends of the committed range.
C17_MoveHandleKeepsDuration ==
  [][(last'.op \in {"dragmove", "dragend"} /\ last'.kind = "move") =>
     \A dx \in Dxs :
       (/\ DragMove(dx) \/ DragEnd(dx)
        /\ Ordered(drag[1].original, committedRange)) =>
         LET o == drag[1].original
             u == emitted'[1].update
         IN JsEq(JsSub(u.selectionEnd, u.selectionStart),
                 JsSub(o.selectionEnd, o.selectionStart))]_vars

\* C17: a frame of the move handle emits a selection of the original
\* duration, for an original selection inside the committed range and every
\* pixel delta whose translated range lies inside the committed range.
C17_MoveHandleKeepsDurationInside ==
  [][(last'.op \in {"dragmove", "dragend"} /\ last'.kind = "move") =>
     \A dx \in Dxs :
       (/\ DragMove(dx) \/ DragEnd(dx)
        /\ Ordered(drag[1].original, committedRange)
        /\ Ordered(Translated(drag[1].original, dx), committedRange)) =>
         LET o == drag[1].original
             u == emitted'[1].update
         IN /\ Len(emitted') = 1
            /\ JsEq(JsSub(u.selectionEnd, u.selectionStart),
                    JsSub(o.selectionEnd, o.selectionStart))]_vars

\* the move handle translated a selection of non-zero duration
C17_Witness ==
  /\ last.op = "dragmove"
  /\ last.kind = "move"
  /\ drag # << >>
  /\ Ordered(drag[1].original, committedRange)
  /\ previewSelection.hasSelection
  /\ JsLt(drag[1].original.selectionStart, drag[1].original.selectionEnd)
  /\ JsLt(drag[1].original.selectionStart, previewSelection.selectionStart)
  /\ JsEq(JsSub(previewSelection.selectionEnd, previewSelection.selectionStart),
          JsSub(drag[1].original.selectionEnd,
                drag[1].original.selectionStart))

\* C18: a frame of a handle drag depends on the original selection, the
\* handle, the pixel delta, the width and the committed range only; after
\* any frames, a frame with pixel delta 0 emits the original selection again
\* when the original lies inside the committed range.
C18_NoDrift ==
  [][last'.op \in {"dragmove", "dragend"} =>
     ((/\ DragMove(0) \/ DragEnd(0)
       /\ Ordered(drag[1].original, committedRange)) =>
        /\ Len(emitted') = 1
        /\ emitted'[1].update.selectionStart = drag[1].original.selectionStart
        /\ emitted'[1].update.selectionEnd = drag[1].original.selectionEnd)]_vars

\* C19: an accepted pointer-down captures the rectangle and the committed
\* range current at that event; while the gesture's listeners are installed
\* the captured values do not change, and every pointer-move and the
\* pointer-up of the gesture map the pointer with them, whatever the layout
\* and the committed range have become since.
C19_RectPerGesture ==
  [][/\ (last'.op = "mousedown" /\ last'.accepted) =>
          /\ closures'[handlers'].rect = rect
          /\ closures'[handlers'].committedRange = committedRange
          /\ \E x \in PageXs :
               /\ rect.left <= x
               /\ x < rect.right
               /\ closures'[handlers'].mouseDownTime =
                    mouseTime(x, rect, committedRange)
     /\ \A h \in ClosureIds :
          (InSeq(windowListeners, h) /\ InSeq(windowListeners', h)) =>
            /\ closures'[h].rect = closures[h].rect
            /\ closures'[h].committedRange = closures[h].committedRange
            /\ closures'[h].mouseDownTime = closures[h].mouseDownTime
     /\ last'.op = "mousemove" =>
          \A x \in PageXs :
            MouseMove(x) =>
              \A h \in Range(windowListeners) :
                \/ EmittedBy(emitted', h) = << >>
                \/ EmittedBy(emitted', h) =
                     <<Emit(h, Selection(Fin(RefStart(closures[h], x)),
                                         Fin(RefEnd(closures[h], x)), TRUE))>>
     /\ last'.op = "mouseup" =>
          \A x \in PageXs :
            MouseUp(x) =>
              \A h \in Range(ran') :
                closures[h].isRangeSelecting =>
                  EmittedBy(emitted', h) =
                    <<Emit(h, Selection(Fin(RefStart(closures[h], x)),
                                        Fin(RefEnd(closures[h], x)), FALSE))>>
    ]_vars

\* a gesture emitted an update after the layout and the committed range had
\* changed under it
C19_Witness ==
  /\ last.op = "mousemove"
  /\ Len(emitted) = 1
  /\ closures[emitted[1].by].rect # rect
  /\ closures[emitted[1].by].committedRange # committedRange
  /\ rect.width # 0

\* C20: for every sequence of pointer-down, pointer-move and pointer-up
\* events, overlapping pointer-downs included, the listeners on the window
\* belong to at most one gesture, and after a pointer-up has been processed
\* none is installed, so a pointer-move then emits nothing.
C20_SingleGestureListeners ==
  /\ Len(windowListeners) <= 1
  /\ last.op = "mouseup" => windowListeners = << >>
  /\ (last.op = "mousemove" /\ windowListeners = << >>) => emitted = << >>
====
